---- MODULE Spec2Model ----
(***************************************************************************)
(* Model of the rill-search crawler (src/crawler/crawl.py, src/crawl.py)   *)
(* and of the Flask search route (src/app.py).                             *)
(*                                                                         *)
(* A crawl session is Crawler.start_crawling: a recursive descent          *)
(* crawl_page -> parse_links -> crawl_page ... followed by writer.commit().*)
(* The recursion is modelled with an explicit call stack of parse_links    *)
(* frames; one step of the model is one iteration of the parse_links loop  *)
(* together with the crawl_page call that iteration makes (up to the point *)
(* where that call enters its own parse_links loop).                       *)
(*                                                                         *)
(* Spec is the crawl session; SpecApp is the search route serving requests *)
(* over a committed index; SpecMem is the in-memory index of src/crawl.py; *)
(* SpecCli is the command-line entry point; SpecTeaser and SpecPage are    *)
(* the extraction steps of index_page; SpecStatus is the crawl session on  *)
(* a web with error pages.                                                 *)
(***************************************************************************)
EXTENDS Integers, Sequences, FiniteSets, TLC

VARIABLES
    pc,            \* position of the crawler process
    site,          \* the web: how requests.get(u) answers for every URL u
    visited_urls,  \* Crawler.visited_urls
    stack,         \* active parse_links frames (innermost last)
    fetches,       \* number of requests.get(u) performed, per URL
    writer,        \* number of writer.add_document(url=u) calls, per URL
    index,         \* URLs of the documents of the committed (readable) index
    commits,       \* number of writer.commit() calls
    parsed,        \* links the parse_links loop has handled so far
    calls,         \* links parse_links has passed to crawl_page
    reach,         \* URLs linked from the start URL through fetched pages
    resp,          \* last response of the /search route
    mem_index,     \* src/crawl.py: Crawler.index, word -> list of URLs
    mem_docs,      \* src/crawl.py: raw words passed to index_page, per URL
    cli,           \* the command line run: arguments, index found, outcome
    tz,            \* a generate_teaser call: content, summarizer, result
    pg             \* an index_page call: page markup, document stored

\* the variables of the crawl session and of the search route
crawl_vars == <<pc, site, visited_urls, stack, fetches, writer, index,
                commits, parsed, calls, reach, resp>>

\* the variables of the other components
ext == <<mem_index, mem_docs, cli, tz, pg>>

vars == <<crawl_vars, ext>>

(***************************************************************************)
(* Bounds of the model.                                                    *)
(***************************************************************************)
\* longest list of <a href> elements on one page
MaxLinks == 2

(***************************************************************************)
(* URLs.  A URL is the record of the components urlparse splits it into;   *)
(* port is the port as written in the URL ("" when the URL names none).    *)
(***************************************************************************)
Url(s, h, p, path) == [scheme |-> s, host |-> h, port |-> p, path |-> path]

\* Crawler.start_url
start_url == Url("http", "a", "", "/")

Range(f) == {f[x] : x \in DOMAIN f}

\* the URLs of the modelled web, in the order the index enumerates documents
UrlSeq ==
    << start_url,
       Url("http",  "a", "",   "/p"),    \* same scheme, same netloc
       Url("https", "a", "",   "/p"),    \* other scheme, same netloc
       Url("http",  "b", "",   "/p"),    \* other host
       Url("http",  "a", "80", "/p") >>  \* same host, default port written out

Urls == Range(UrlSeq)

\* urlparse(url).netloc: the "host[:port]" part of the URL, as written
urlparse_netloc(url) == <<url.host, url.port>>

\* The notion of origin of the specification's glossary (scheme, host and
\* port), which the properties compare the crawler's decisions with.
\* the port a URL addresses: the one written, or the default of its scheme
EffectivePort(url) ==
    IF url.port # "" THEN url.port
    ELSE IF url.scheme = "https" THEN "443" ELSE "80"

\* same origin: same scheme, same host, same port
SameOrigin(u, v) ==
    /\ u.scheme = v.scheme
    /\ u.host = v.host
    /\ EffectivePort(u) = EffectivePort(v)

(***************************************************************************)
(* Responses of requests.get.                                              *)
(***************************************************************************)
\* a Content-Type header is the media type followed by its parameters
TextHtml == <<"text/html", "charset=utf-8">>
AppPdf   == <<"application/pdf">>

\* exc: the exception requests.get raises, if any; status: the status code
\* of the response (0 when there is none)
Outcomes ==
    { [exc |-> "",                status |-> 200, content_type |-> TextHtml],
      [exc |-> "",                status |-> 200, content_type |-> AppPdf],
      [exc |-> "ConnectionError", status |-> 0,   content_type |-> <<>>] }

\* an error page: requests.get returns it as any other response
NotFound == [exc |-> "", status |-> 404, content_type |-> TextHtml]

\* response.headers["Content-Type"].startswith("text/html")
startswith_text_html(content_type) ==
    Len(content_type) >= 1 /\ content_type[1] = "text/html"

\* the webs crawled: every URL of the start URL's server answers in any of
\* the three ways; the other servers, which the crawler is to leave alone,
\* serve HTML
Sites ==
    { s \in [Urls -> Outcomes] :
        \A u \in Urls :
            urlparse_netloc(u) # urlparse_netloc(start_url)
                => startswith_text_html(s[u].content_type) }

\* the lists of resolved link targets (urljoin(base_url, a['href'])) a page
\* can carry, in document order, duplicates allowed
LinkLists == UNION { [1..n -> Urls] : n \in 0..MaxLinks }

(***************************************************************************)
(* Page text and queries.                                                  *)
(***************************************************************************)
\* body words of the page served at a URL (whitespace-split, lowercased)
Body(url) == IF url.path = "/" THEN {"australia", "biology"} ELSE {"biology"}

\* a request argument that is absent: request.args.get gives None
None == "<None>"

\* values of the request argument q
Queries == {None, "", "biology", "australia", "zebra"}

\* values of the request argument frisky
FriskyArgs == {None, "1"}

\* Python truth value of a request argument
Truthy(arg) == arg \notin {None, ""}

\* no request served yet
NoResp == [kind |-> "none", query |-> None, frisky |-> None,
           results |-> <<>>, location |-> None]

\* the other components at rest
ExtIdle ==
    /\ mem_index = <<>>
    /\ mem_docs = <<>>
    /\ cli = [at |-> "none"]
    /\ tz = [at |-> "none"]
    /\ pg = [at |-> "none"]

(***************************************************************************)
(* Initial state: a Crawler has been constructed (create_in made a fresh,  *)
(* empty index and opened its writer); the site is any assignment of       *)
(* answers to the URLs.                                                    *)
(***************************************************************************)
Init ==
    /\ pc = "NotStarted"
    /\ site \in Sites
    /\ visited_urls = {}
    /\ stack = <<>>
    /\ fetches = [u \in Urls |-> 0]
    /\ writer = [u \in Urls |-> 0]
    /\ index = {}
    /\ commits = 0
    /\ parsed = {}
    /\ calls = {}
    /\ reach = {start_url}
    /\ resp = NoResp
    /\ ExtIdle

(***************************************************************************)
(* Crawler                                                                 *)
(***************************************************************************)
\* variant: the host names are compared, the ports left out
is_same_server_hostname(url) == start_url.host = url.host

\* variant: scheme, host and port are compared
is_same_server_origin(url) == SameOrigin(url, start_url)

\* is_same_server: netloc of the start URL against netloc of the link
is_same_server(url) ==
    urlparse_netloc(start_url) = urlparse_netloc(url)

\* variant: the URL is not recorded
visited_add_forgotten(url) == visited_urls

\* self.visited_urls.add(url)
visited_add(url) == visited_urls \cup {url}

\* variant: the writer is committed after every document
index_page_committing(url) ==
    [writer |-> [writer EXCEPT ![url] = @ + 1], index |-> index \cup {url}]

\* variant: index_page adds no document
index_page_unwritten(url) == [writer |-> writer, index |-> index]

\* index_page: writer.add_document(url=url, ...) buffers the document in the
\* writer; the committed index is left as it is (no commit here)
index_page(url) ==
    [writer |-> [writer EXCEPT ![url] = @ + 1], index |-> index]

\* variant: crawl_page without the test of visited_urls
crawl_page_unchecked(url, stk, nxt) ==
    /\ fetches' = [fetches EXCEPT ![url] = @ + 1]
    /\ IF site[url].exc # ""
       THEN /\ pc' = "Crashed"
            /\ stack' = stk
            /\ UNCHANGED <<visited_urls, writer, index, reach>>
       ELSE IF startswith_text_html(site[url].content_type)
       THEN /\ visited_urls' = visited_add(url)
            /\ writer' = index_page(url).writer
            /\ index' = index_page(url).index
            /\ \E html \in LinkLists :
                  /\ stack' = Append(stk, [base_url |-> url, links |-> html])
                  /\ reach' = IF url \in reach /\ SameOrigin(url, start_url)
                              THEN reach \cup Range(html) ELSE reach
            /\ pc' = nxt
       ELSE /\ stack' = stk
            /\ pc' = nxt
            /\ UNCHANGED <<visited_urls, writer, index, reach>>

\* crawl_page(url), called with the caller's frames in stk; the process goes
\* on at position nxt unless the call raises. pc, stack, visited_urls,
\* fetches, writer, index and reach are set here
crawl_page(url, stk, nxt) ==
    IF url \in visited_urls
    THEN \* already visited: ignored
         /\ stack' = stk
         /\ pc' = nxt
         /\ UNCHANGED <<visited_urls, fetches, writer, index, reach>>
    ELSE /\ fetches' = [fetches EXCEPT ![url] = @ + 1]    \* requests.get(url)
         /\ IF site[url].exc # ""
            THEN \* requests.get raises; nothing catches it
                 /\ pc' = "Crashed"
                 /\ stack' = stk
                 /\ UNCHANGED <<visited_urls, writer, index, reach>>
            ELSE IF startswith_text_html(site[url].content_type)
            THEN /\ visited_urls' = visited_add(url)
                 /\ writer' = index_page(url).writer
                 /\ index' = index_page(url).index
                 \* parse_links(url, response.text): find_all("a", href=True),
                 \* and the loop over it starts
                 /\ \E html \in LinkLists :
                       /\ stack' = Append(stk, [base_url |-> url, links |-> html])
                       /\ reach' = IF url \in reach /\ SameOrigin(url, start_url)
                                   THEN reach \cup Range(html) ELSE reach
                 /\ pc' = nxt
            ELSE \* not a HTML document: ignored
                 /\ stack' = stk
                 /\ pc' = nxt
                 /\ UNCHANGED <<visited_urls, writer, index, reach>>

\* start_crawling, up to the call crawl_page(self.start_url)
StartCrawling ==
    /\ pc = "NotStarted"
    /\ crawl_page(start_url, stack, "Crawling")
    /\ UNCHANGED <<site, commits, parsed, calls, resp>>
    /\ UNCHANGED ext

Top == stack[Len(stack)]
Below == SubSeq(stack, 1, Len(stack) - 1)

\* one iteration of the loop of parse_links
ParseLinksStep ==
    /\ pc = "Crawling"
    /\ stack # <<>>
    /\ Top.links # <<>>
    /\ LET full_url == Head(Top.links)
           stk == Append(Below, [Top EXCEPT !.links = Tail(@)])
       IN /\ parsed' = parsed \cup {full_url}
          /\ IF is_same_server(full_url)
             THEN /\ calls' = calls \cup {full_url}
                  /\ crawl_page(full_url, stk, "Crawling")
             ELSE /\ stack' = stk
                  /\ UNCHANGED <<calls, pc, visited_urls, fetches, writer, index, reach>>
    /\ UNCHANGED <<site, commits, resp>>
    /\ UNCHANGED ext

\* the loop of parse_links is over: parse_links and its crawl_page return
ParseLinksReturn ==
    /\ pc = "Crawling"
    /\ stack # <<>>
    /\ Top.links = <<>>
    /\ stack' = Below
    /\ UNCHANGED <<pc, site, visited_urls, fetches, writer, index,
                   commits, parsed, calls, reach, resp>>
    /\ UNCHANGED ext

\* start_crawling after crawl_page(self.start_url) returned: writer.commit()
Commit ==
    /\ pc = "Crawling"
    /\ stack = <<>>
    /\ index' = index \cup {u \in Urls : writer[u] > 0}
    /\ commits' = commits + 1
    /\ pc' = "Sealed"
    /\ UNCHANGED <<site, visited_urls, stack, fetches, writer,
                   parsed, calls, reach, resp>>
    /\ UNCHANGED ext

Next ==
    \/ StartCrawling
    \/ ParseLinksStep
    \/ ParseLinksReturn
    \/ Commit

Spec == Init /\ [][Next]_vars

(***************************************************************************)
(* The crawl session on a server with error pages                          *)
(***************************************************************************)
\* the webs of this section: every page is HTML; the start page and the
\* page /p over http are there (200) or are error pages (404)
StatusSites ==
    { s \in [Urls -> Outcomes \cup {NotFound}] :
        \A u \in Urls :
            /\ startswith_text_html(s[u].content_type)
            /\ u \notin {UrlSeq[1], UrlSeq[2]} => s[u].status = 200 }

InitStatus ==
    /\ pc = "NotStarted"
    /\ site \in StatusSites
    /\ visited_urls = {}
    /\ stack = <<>>
    /\ fetches = [u \in Urls |-> 0]
    /\ writer = [u \in Urls |-> 0]
    /\ index = {}
    /\ commits = 0
    /\ parsed = {}
    /\ calls = {}
    /\ reach = {start_url}
    /\ resp = NoResp
    /\ ExtIdle

SpecStatus == InitStatus /\ [][Next]_vars

(***************************************************************************)
(* Search application (src/app.py)                                         *)
(***************************************************************************)
\* ix.searcher(): a searcher reads the committed documents
searcher == index

\* execute_search: the documents whose content holds the query term, in the
\* index's order
execute_search(query) ==
    LET Hit(u) == u \in searcher /\ query \in Body(u)
    IN SelectSeq(UrlSeq, Hit)

\* prepare_search_results: one entry per result, in order
prepare_search_results(results) ==
    [k \in DOMAIN results |-> [url |-> results[k]]]

\* variant: the redirect goes to the last result
search_last_result(query, frisky) ==
    IF Truthy(query)
    THEN LET results == execute_search(query)
             found_urls == prepare_search_results(results)
         IN IF Truthy(frisky) /\ results # <<>>
            THEN resp' = [kind |-> "redirect", query |-> query,
                          frisky |-> frisky, results |-> <<>>,
                          location |-> results[Len(results)]]
            ELSE resp' = [kind |-> "render", query |-> query,
                          frisky |-> frisky, results |-> found_urls,
                          location |-> None]
    ELSE resp' = [kind |-> "error", query |-> query, frisky |-> frisky,
                  results |-> <<>>, location |-> None]

\* the /search route; a response is its kind and, of the template's
\* arguments, the query and the result list (the spelling suggestion, which
\* reads the index and changes nothing, is left out)
search(query, frisky) ==
    IF Truthy(query)
    THEN LET results == execute_search(query)
             found_urls == prepare_search_results(results)
         IN IF Truthy(frisky) /\ results # <<>>
            THEN resp' = [kind |-> "redirect", query |-> query,
                          frisky |-> frisky, results |-> <<>>,
                          location |-> results[1]]
            ELSE resp' = [kind |-> "render", query |-> query,
                          frisky |-> frisky, results |-> found_urls,
                          location |-> None]
    ELSE \* print(f"{print_prefix} ...") reads print_prefix, which is bound
         \* only in the other branch: UnboundLocalError, an error response
         resp' = [kind |-> "error", query |-> query, frisky |-> frisky,
                  results |-> <<>>, location |-> None]

SearchRequest ==
    /\ \E query \in Queries, frisky \in FriskyArgs : search(query, frisky)
    /\ UNCHANGED <<pc, site, visited_urls, stack, fetches, writer, index,
                   commits, parsed, calls, reach>>
    /\ UNCHANGED ext

\* the application serves a committed index: any set of HTML pages of the
\* web, left by a finished crawl session
InitApp ==
    /\ pc = "Sealed"
    /\ site \in Sites
    /\ index \in { d \in SUBSET {u \in Urls : /\ is_same_server(u)
                                                /\ startswith_text_html(site[u].content_type)} :
                      d # {} => start_url \in d }
    /\ visited_urls = index
    /\ stack = <<>>
    /\ fetches = [u \in Urls |-> IF u \in index THEN 1 ELSE 0]
    /\ writer = [u \in Urls |-> IF u \in index THEN 1 ELSE 0]
    /\ commits = 1
    /\ parsed = {}
    /\ calls = {}
    /\ reach = {start_url}
    /\ resp = NoResp
    /\ ExtIdle

NextApp == SearchRequest

SpecApp == InitApp /\ [][NextApp]_vars

(***************************************************************************)
(* In-memory index (src/crawl.py): Crawler.index_page and Crawler.search   *)
(***************************************************************************)
\* most words on one page
MaxWords == 2

\* the crawler of this section at rest: constructed, not started
CrawlIdle ==
    /\ pc = "NotStarted"
    /\ site = [u \in Urls |->
                  [exc |-> "", status |-> 200, content_type |-> TextHtml]]
    /\ visited_urls = {}
    /\ stack = <<>>
    /\ fetches = [u \in Urls |-> 0]
    /\ writer = [u \in Urls |-> 0]
    /\ index = {}
    /\ commits = 0
    /\ parsed = {}
    /\ calls = {}
    /\ reach = {start_url}
    /\ resp = NoResp

\* A word is the sequence of its characters. The characters of the model:
\* lower-case letters, an upper-case letter, a punctuation mark and the
\* underscore.
\* the words text.split() can give
RawWords ==
    { <<"a", "b">>, <<"A", "b">>, <<"a", "-", "b">>, <<"-">>, <<"b", "_">> }

\* the texts of a page: soupie.get_text().split()
PageTexts == UNION { [1..n -> RawWords] : n \in 0..MaxWords }

\* the URLs index_page is called with
MemUrls == {UrlSeq[1], UrlSeq[2]}

\* str.lower, one character
char_lower(c) == IF c = "A" THEN "a" ELSE c

\* str.lower
str_lower(w) == [k \in DOMAIN w |-> char_lower(w[k])]

\* the regular expression class \W: neither letter, digit nor underscore
IsNonWordChar(c) == c = "-"

\* re.sub('\W+', '', w): every run of \W characters is deleted
re_sub_W(w) ==
    LET Keep(c) == ~IsNonWordChar(c) IN SelectSeq(w, Keep)

\* the normalization of index_page: re.sub('\W+', '', word.lower().strip());
\* the words of split() carry no white space, which strip() would remove
normalize(word) == re_sub_W(str_lower(word))

InSeq(x, seq) == \E k \in DOMAIN seq : seq[k] = x

\* the loop of index_page over the words of the page
RECURSIVE index_words(_, _, _)
index_words(idx, url, words) ==
    IF words = <<>> THEN idx
    ELSE LET word == normalize(Head(words))
             idx1 == IF word \in DOMAIN idx THEN idx
                     ELSE (word :> <<>>) @@ idx
             idx2 == IF InSeq(url, idx1[word]) THEN idx1
                     ELSE [idx1 EXCEPT ![word] = Append(@, url)]
         IN index_words(idx2, url, Tail(words))

\* variant: a URL is listed only under the words it is the first to bring
RECURSIVE index_words_first(_, _, _)
index_words_first(idx, url, words) ==
    IF words = <<>> THEN idx
    ELSE LET word == normalize(Head(words))
             idx1 == IF word \in DOMAIN idx THEN idx
                     ELSE (word :> <<url>>) @@ idx
         IN index_words_first(idx1, url, Tail(words))

mem_index_page_first_url(url, words) ==
    index_words_first(mem_index, url, words)

\* Crawler.index_page of src/crawl.py: the index after the call
mem_index_page(url, words) == index_words(mem_index, url, words)

\* found_urls after appending the URLs of urls that it does not hold yet
RECURSIVE append_new(_, _)
append_new(found_urls, urls) ==
    IF urls = <<>> THEN found_urls
    ELSE append_new(IF InSeq(Head(urls), found_urls) THEN found_urls
                    ELSE Append(found_urls, Head(urls)),
                    Tail(urls))

\* the first loop of search: the URLs of every word that is in the index
RECURSIVE collect(_, _)
collect(found_urls, words) ==
    IF words = <<>> THEN found_urls
    ELSE collect(IF Head(words) \in DOMAIN mem_index
                 THEN append_new(found_urls, mem_index[Head(words)])
                 ELSE found_urls,
                 Tail(words))

\* variant: the filter for all words looks at the first word only
mem_search_first_word(words, all_words) ==
    LET normalized_words == [k \in DOMAIN words |-> str_lower(words[k])]
        found_urls == collect(<<>>, normalized_words)
        ContainsFirst(url) ==
            /\ normalized_words[1] \in DOMAIN mem_index
            /\ InSeq(url, mem_index[normalized_words[1]])
    IN IF all_words /\ words # <<>> THEN SelectSeq(found_urls, ContainsFirst)
       ELSE found_urls

\* Crawler.search of src/crawl.py
mem_search(words, all_words) ==
    LET normalized_words == [k \in DOMAIN words |-> str_lower(words[k])]
        found_urls == collect(<<>>, normalized_words)
        ContainsAllWords(url) ==
            \A k \in DOMAIN normalized_words :
                /\ normalized_words[k] \in DOMAIN mem_index
                /\ InSeq(url, mem_index[normalized_words[k]])
    IN IF all_words THEN SelectSeq(found_urls, ContainsAllWords)
       ELSE found_urls

\* a call of index_page(url, html)
IndexPageMem ==
    /\ \E url \in MemUrls, words \in PageTexts :
          /\ mem_index' = mem_index_page(url, words)
          /\ mem_docs' = [mem_docs EXCEPT ![url] = @ \cup Range(words)]
    /\ UNCHANGED <<crawl_vars, cli, tz, pg>>

InitMem ==
    /\ CrawlIdle
    /\ mem_index = <<>>
    /\ mem_docs = [u \in MemUrls |-> {}]
    /\ cli = [at |-> "none"]
    /\ tz = [at |-> "none"]
    /\ pg = [at |-> "none"]

NextMem == IndexPageMem

SpecMem == InitMem /\ [][NextMem]_vars

(***************************************************************************)
(* Command line (src/crawler/crawl.py, __main__)                           *)
(***************************************************************************)
\* values of args.force (argparse.BooleanOptionalAction): None by default,
\* True for --force, False for --no-force
ForceArgs == {None, "True", "False"}

\* what the index directory can hold when the program starts: no index, or
\* the committed index of an earlier run
OldIndexes ==
    { [exists |-> FALSE, docs |-> {}],
      [exists |-> TRUE,  docs |-> {}],
      [exists |-> TRUE,  docs |-> {start_url}],
      [exists |-> TRUE,  docs |-> {start_url, UrlSeq[2]}] }

\* the webs of this section: the start URL answers in any way, its page /p
\* is HTML over http and a PDF over https
CliSites ==
    { s \in Sites : /\ startswith_text_html(s[UrlSeq[2]].content_type)
                    /\ s[UrlSeq[3]].content_type = AppPdf }

\* variant: the index is kept when it exists and --force is given
keeps_index_if_forced(exists, force) == exists /\ force = "True"

\* exists_in(args.index_dir) and not args.force
keeps_index(exists, force) == exists /\ ~(force = "True")

\* the body of __main__ after parse_args, up to the call of start_crawling;
\* Crawler.__init__ makes a fresh index with create_in
Main ==
    /\ pc = "Main"
    /\ IF keeps_index(cli.exists, cli.force)
       THEN \* "An index has already been built"
            /\ pc' = "Exit"
            /\ cli' = [cli EXCEPT !.at = "kept"]
            /\ UNCHANGED index
       ELSE /\ pc' = "NotStarted"
            /\ cli' = [cli EXCEPT !.at = "crawl"]
            /\ index' = {}
    /\ UNCHANGED <<site, visited_urls, stack, fetches, writer, commits,
                   parsed, calls, reach, resp>>
    /\ UNCHANGED <<mem_index, mem_docs, tz, pg>>

InitCli ==
    /\ pc = "Main"
    /\ site \in CliSites
    /\ \E old \in OldIndexes, force \in ForceArgs :
          /\ cli = [at |-> "start", exists |-> old.exists, old |-> old.docs,
                    force |-> force]
          /\ index = old.docs
    /\ visited_urls = {}
    /\ stack = <<>>
    /\ fetches = [u \in Urls |-> 0]
    /\ writer = [u \in Urls |-> 0]
    /\ commits = 0
    /\ parsed = {}
    /\ calls = {}
    /\ reach = {start_url}
    /\ resp = NoResp
    /\ mem_index = <<>>
    /\ mem_docs = <<>>
    /\ tz = [at |-> "none"]
    /\ pg = [at |-> "none"]

NextCli ==
    \/ Main
    \/ StartCrawling
    \/ ParseLinksStep
    \/ ParseLinksReturn
    \/ Commit

SpecCli == InitCli /\ [][NextCli]_vars

(***************************************************************************)
(* Teaser (src/crawler/crawl.py, Crawler.generate_teaser)                  *)
(***************************************************************************)
\* the character budget of the fallback teaser
TeaserCap == 300

\* how far the lengths of the contents tried lie from the budget
Slack == 3

\* most ampersands in a content
MaxAmp == 2

\* most calls of generate_teaser on one content
MaxTeaserCalls == 2

\* the marker appended to a truncated teaser
Ellipsis == <<".", ".", ".">>

\* n times the character c
Rep(c, n) == [k \in 1..n |-> c]

\* the body texts tried: j ampersands before or after i letters
Content(i, j, amp_first) ==
    IF amp_first THEN Rep("&", j) \o Rep("x", i)
    ELSE Rep("x", i) \o Rep("&", j)

ContentLengths == {0} \cup ((TeaserCap - Slack)..(TeaserCap + Slack))

\* what the summarizer can answer when it answers
Summaries == {<<"s", "1">>, <<"s", "2">>}

\* bleach.clean, one character: an ampersand that starts no entity is escaped
escape(c) == IF c = "&" THEN <<"&", "a", "m", "p", ";">> ELSE <<c>>

\* bleach.clean(content): every character escaped in place, the content
\* taken by halves
RECURSIVE bleach_clean(_)
bleach_clean(content) ==
    IF content = <<>> THEN <<>>
    ELSE IF Len(content) = 1 THEN escape(content[1])
    ELSE LET half == Len(content) \div 2
         IN bleach_clean(SubSeq(content, 1, half))
                \o bleach_clean(SubSeq(content, half + 1, Len(content)))

\* variant: a content of exactly the budget is truncated too
teaser_fallback_at_cap(content) ==
    LET sanitized_content == bleach_clean(content)
    IN IF Len(sanitized_content) >= TeaserCap
       THEN SubSeq(sanitized_content, 1, TeaserCap) \o Ellipsis
       ELSE sanitized_content

\* generate_teaser, the except branch: the fallback
teaser_fallback(content) ==
    LET sanitized_content == bleach_clean(content)
    IN IF Len(sanitized_content) > TeaserCap
       THEN SubSeq(sanitized_content, 1, TeaserCap) \o Ellipsis
       ELSE sanitized_content

\* a call of generate_teaser(content, title): the summarizer answers, or
\* raises and the fallback is returned
GenerateTeaser ==
    /\ tz.calls < MaxTeaserCalls
    /\ \/ \E summary \in Summaries :
             tz' = [tz EXCEPT !.calls = @ + 1, !.failed = FALSE,
                              !.teaser = summary,
                              !.prev = tz.teaser, !.prev_failed = tz.failed]
       \/ tz' = [tz EXCEPT !.calls = @ + 1, !.failed = TRUE,
                           !.teaser = teaser_fallback(tz.content),
                           !.prev = tz.teaser, !.prev_failed = tz.failed]
    /\ UNCHANGED <<crawl_vars, mem_index, mem_docs, cli, pg>>

InitTeaser ==
    /\ CrawlIdle
    /\ mem_index = <<>>
    /\ mem_docs = <<>>
    /\ cli = [at |-> "none"]
    /\ pg = [at |-> "none"]
    /\ \E i \in ContentLengths, j \in 0..MaxAmp, amp_first \in BOOLEAN :
          tz = [at |-> "teaser", i |-> i, j |-> j, amp_first |-> amp_first,
                content |-> Content(i, j, amp_first), calls |-> 0,
                failed |-> FALSE, teaser |-> <<>>,
                prev_failed |-> FALSE, prev |-> <<>>]

NextTeaser == GenerateTeaser

SpecTeaser == InitTeaser /\ [][NextTeaser]_vars

(***************************************************************************)
(* Page extraction (src/crawler/crawl.py, Crawler.index_page)              *)
(***************************************************************************)
\* A text is a sequence of tokens: characters, or a whole string taken as
\* one token (a URL, the message of extract_body_content).
Space == " "

\* the strings of a title element that has one
TitleStrings == {<<"T">>, <<Space, "T", Space>>, <<"T", Space, "t">>, <<Space>>}

\* soupie.title: no element; an element without a string (<title></title>,
\* whose .string is None); an element with a string
Titles ==
    {[tag |-> FALSE, has_string |-> FALSE, string |-> <<>>],
     [tag |-> TRUE, has_string |-> FALSE, string |-> <<>>]}
    \cup {[tag |-> TRUE, has_string |-> TRUE, string |-> t] : t \in TitleStrings}

\* the text of a body element that is there
BodyTexts == {<<>>, <<Space>>, <<"B">>, <<Space, "B">>}

\* soupie.find("body"): no element, or an element with its text
Bodies ==
    {[tag |-> FALSE, text |-> <<>>]}
    \cup {[tag |-> TRUE, text |-> t] : t \in BodyTexts}

\* the parsed pages tried
Soups == [title : Titles, body : Bodies]

\* the message extract_body_content returns for a page without body
NoBodyFound == <<"No body found on this web page.">>

\* str.strip(): leading and trailing whitespace removed
RECURSIVE str_strip(_)
str_strip(t) ==
    IF t = <<>> THEN <<>>
    ELSE IF Head(t) = Space THEN str_strip(Tail(t))
    ELSE IF t[Len(t)] = Space THEN str_strip(SubSeq(t, 1, Len(t) - 1))
    ELSE t

\* variant: the string of the title element as it is
extract_title_untrimmed(soupie, url) ==
    IF soupie.title.tag
    THEN IF soupie.title.has_string
         THEN [raised |-> FALSE, title |-> soupie.title.string]
         ELSE [raised |-> TRUE, title |-> <<>>]
    ELSE [raised |-> FALSE, title |-> <<url>>]

\* extract_title(soupie, url): a Tag is truthy whatever it holds, and
\* None.strip() raises AttributeError
extract_title(soupie, url) ==
    IF soupie.title.tag
    THEN IF soupie.title.has_string
         THEN [raised |-> FALSE, title |-> str_strip(soupie.title.string)]
         ELSE [raised |-> TRUE, title |-> <<>>]
    ELSE [raised |-> FALSE, title |-> <<url>>]

\* extract_body_content(soupie): a Tag is truthy whatever it holds
extract_body_content(soupie) ==
    IF soupie.body.tag THEN str_strip(soupie.body.text)
    ELSE NoBodyFound

\* index_page(url, html) on the parsed page: the document handed to
\* writer.add_document, or the exception of extract_title, which nothing
\* catches
IndexPage ==
    /\ pg.at = "page"
    /\ pg.result = "none"
    /\ LET t == extract_title(pg.soupie, pg.url)
           body_content == extract_body_content(pg.soupie)
       IN IF t.raised
          THEN pg' = [pg EXCEPT !.result = "raised"]
          ELSE \E teaser \in Summaries \cup {teaser_fallback(body_content)} :
                  pg' = [pg EXCEPT !.result = "stored",
                                   !.doc = [url |-> pg.url,
                                            content |-> body_content,
                                            title |-> t.title,
                                            teaser |-> teaser]]
    /\ UNCHANGED <<crawl_vars, mem_index, mem_docs, cli, tz>>

InitPage ==
    /\ CrawlIdle
    /\ mem_index = <<>>
    /\ mem_docs = <<>>
    /\ cli = [at |-> "none"]
    /\ tz = [at |-> "none"]
    /\ \E url \in Urls, soupie \in Soups :
          pg = [at |-> "page", url |-> url, soupie |-> soupie,
                result |-> "none",
                doc |-> [url |-> url, content |-> <<>>, title |-> <<>>,
                         teaser |-> <<>>]]

NextPage == IndexPage

SpecPage == InitPage /\ [][NextPage]_vars

(***************************************************************************)
(* Properties                                                              *)
(***************************************************************************)
IsHtml(u) == site[u].exc = "" /\ startswith_text_html(site[u].content_type)
IsOther(u) == site[u].exc = "" /\ ~startswith_text_html(site[u].content_type)
Fails(u) == site[u].exc # ""
SameNetloc(u) == urlparse_netloc(u) = urlparse_netloc(start_url)

\* the session is over: start_crawling returned or was left by an exception
Ended == pc \in {"Sealed", "Crashed"}

\* C1: in one crawl session every URL is fetched at most once
C1_FetchedAtMostOnce ==
    \A u \in Urls : fetches[u] <= 1

\* C2: a URL fetched with a response that is not HTML is in visited_urls,
\* has no document, and none of its links are followed
C2_NonHtmlMarkedVisited ==
    \A u \in Urls :
        (fetches[u] > 0 /\ IsOther(u)) =>
            /\ u \in visited_urls
            /\ writer[u] = 0
            /\ \A k \in DOMAIN stack : stack[k].base_url # u

\* C3: a fetch that fails in transport is not fatal: the URL is marked
\* visited and not fetched again, it has no document, and the session does
\* not end without the commit
C3_TransportFailureNotFatal ==
    \A u \in Urls :
        (fetches[u] > 0 /\ Fails(u)) =>
            /\ u \in visited_urls
            /\ fetches[u] = 1
            /\ writer[u] = 0
            /\ pc # "Crashed"
            /\ (Ended => commits = 1)

\* C4: when the session has ended, every same-origin URL that answers with
\* HTML and is linked from the start URL through HTML same-origin pages is
\* in visited_urls and was fetched exactly once
C4_ReachableHtmlVisitedOnce ==
    Ended =>
        \A u \in reach :
            (SameOrigin(u, start_url) /\ IsHtml(u)) =>
                (u \in visited_urls /\ fetches[u] = 1)

\* C5: a URL whose netloc differs from the start URL's is never fetched and
\* never in visited_urls
C5_OtherAuthorityNeverFetched ==
    \A u \in Urls :
        ~SameNetloc(u) => (fetches[u] = 0 /\ u \notin visited_urls)

\* a link to another authority was handled by parse_links, and the session
\* ran to its end
C5_Witness ==
    /\ pc = "Sealed"
    /\ \E u \in parsed : ~SameNetloc(u) /\ u.host = start_url.host
    /\ \E u \in parsed : u.host # start_url.host

\* C6 as stated: a handled link is passed to crawl_page iff it shares
\* scheme, host and port with the start URL
C6_CrawledIffSameOrigin ==
    \A u \in parsed : (u \in calls) <=> SameOrigin(u, start_url)

\* C6 amended: a handled link is passed to crawl_page iff its netloc (host
\* and port as written) equals the start URL's netloc, whatever its scheme
C6_CrawledIffSameNetloc ==
    \A u \in parsed : (u \in calls) <=> SameNetloc(u)

\* a link of another scheme was crawled and fetched, and a link that names
\* the default port was not
C6_Witness ==
    /\ \E u \in calls : u.scheme # start_url.scheme /\ fetches[u] > 0
    /\ \E u \in parsed : SameOrigin(u, start_url) /\ u \notin calls

\* C7: a session that has ended has committed exactly once, the commit
\* comes when no parse_links loop is left, and is the last thing done
C7_CommitExactlyOnce ==
    /\ Ended => commits = 1
    /\ commits >= 1 => (stack = <<>> /\ pc = "Sealed")

\* C8: before the commit of the session no search returns a document
C8_NothingVisibleBeforeCommit ==
    commits = 0 => \A q \in Queries : execute_search(q) = <<>>

\* a document that a query matches has been added and the commit is still
\* to come
C8_Witness ==
    /\ commits = 0
    /\ pc = "Crawling"
    /\ \E u \in Urls, q \in Queries : writer[u] > 0 /\ q \in Body(u)

\* C9: add_document is called at most once for each URL
C9_AddDocumentAtMostOnce ==
    \A u \in Urls : writer[u] <= 1

\* pages link to each other and to themselves: the start URL was passed to
\* crawl_page again by a page linked from it, and by itself
C9_Witness ==
    /\ start_url \in calls
    /\ writer[start_url] = 1
    /\ \E u \in calls : u # start_url /\ writer[u] = 1
    /\ pc = "Sealed"

\* C10: a request with an absent or empty q is answered with the rendered
\* empty result list, never with an error
C10_EmptyQueryEmptyResults ==
    (resp.kind # "none" /\ ~Truthy(resp.query)) =>
        (resp.kind = "render" /\ resp.results = <<>>)

\* the words a search is made with
QueryWords == RawWords \cup {<<"b">>}

\* C11: the search for all of two words gives a subset of the search for
\* any of them, and as a set the intersection of the two one-word searches
C11_AndSubsetOrAndIntersection ==
    \A t1 \in QueryWords, t2 \in QueryWords :
        LET and == Range(mem_search(<<t1, t2>>, TRUE))
            or == Range(mem_search(<<t1, t2>>, FALSE))
        IN /\ and \subseteq or
           /\ and = Range(mem_search(<<t1>>, TRUE))
                        \cap Range(mem_search(<<t2>>, TRUE))

\* two pages are indexed and a two-word search for all words gives some of
\* the URLs the search for any word gives, not all
C11_Witness ==
    \E t1 \in QueryWords, t2 \in QueryWords :
        LET and == Range(mem_search(<<t1, t2>>, TRUE))
            or == Range(mem_search(<<t1, t2>>, FALSE))
        IN and # {} /\ and # or

\* the normal form of each word of the model: lower case, no punctuation
NormalForm ==
    (<<"a", "b">> :> <<"a", "b">>) @@ (<<"A", "b">> :> <<"a", "b">>) @@
    (<<"a", "-", "b">> :> <<"a", "b">>) @@ (<<"-">> :> <<>>) @@
    (<<"b", "_">> :> <<"b", "_">>)

\* terms: the normal forms, and a term no page of the model holds
Terms == Range(NormalForm) \cup {<<"b">>}

\* the documents whose body holds the term
DocsWith(T) ==
    {u \in MemUrls : \E w \in mem_docs[u] : NormalForm[w] = T}

\* C12: a one-term search gives exactly the documents whose normalized body
\* holds the term: every such document, and none for a term of no document
C12_TermMapsToItsDocuments ==
    \A T \in Terms : Range(mem_search(<<T>>, TRUE)) = DocsWith(T)

\* both pages hold one term, only one of them holds another, and a third
\* term is in no page
C12_Witness ==
    /\ \E T \in Terms : DocsWith(T) = MemUrls
    /\ \E T \in Terms : Cardinality(DocsWith(T)) = 1
    /\ \E T \in Terms : DocsWith(T) = {} /\ mem_search(<<T>>, TRUE) = <<>>

\* C20: the empty string is never a key of the in-memory index
C20_EmptyStringNeverIndexed ==
    <<>> \notin DOMAIN mem_index

\* the committed documents that hold the query term
Hits(q) == {u \in index : q \in Body(u)}

\* the hit the index enumerates first
FirstHit(q) ==
    UrlSeq[CHOOSE k \in DOMAIN UrlSeq :
               /\ UrlSeq[k] \in Hits(q)
               /\ \A j \in 1..(k - 1) : UrlSeq[j] \notin Hits(q)]

\* C13: with frisky set and a query given, the route redirects to the URL
\* of the first result when there is one, and renders the empty result list
\* when there is none
C13_FriskyRedirectsToFirstResult ==
    (resp.kind # "none" /\ Truthy(resp.query) /\ Truthy(resp.frisky)) =>
        IF Hits(resp.query) # {}
        THEN resp.kind = "redirect" /\ resp.location = FirstHit(resp.query)
        ELSE resp.kind = "render" /\ resp.results = <<>>

\* a frisky request whose query several documents match was redirected
C13_Witness ==
    /\ resp.kind = "redirect"
    /\ Truthy(resp.frisky)
    /\ Cardinality(Hits(resp.query)) >= 2

\* C14: with an index in the directory and no --force, no Crawler is
\* constructed, nothing is fetched and the index stays as it was; the index
\* is made anew exactly when there was none or --force was given
C14_ExistingIndexKeptWithoutForce ==
    /\ (cli.exists /\ cli.force # "True") =>
            /\ cli.at # "crawl"
            /\ pc \in {"Main", "Exit"}
            /\ index = cli.old
            /\ \A u \in Urls : fetches[u] = 0 /\ writer[u] = 0
            /\ visited_urls = {}
            /\ commits = 0
    /\ (~cli.exists \/ cli.force = "True") => cli.at # "kept"

\* the program has ended with --no-force and the two documents of the
\* earlier run still in the index
C14_Witness ==
    /\ pc = "Exit"
    /\ cli.at = "kept"
    /\ cli.force = "False"
    /\ Cardinality(index) = 2

\* the sanitized form of the content of tz, written out: every ampersand
\* takes the five characters of &amp;
Amp == <<"&", "a", "m", "p", ";">>
Sanitized ==
    LET amps == [k \in 1..(5 * tz.j) |-> Amp[((k - 1) % 5) + 1]]
    IN IF tz.amp_first THEN amps \o Rep("x", tz.i)
       ELSE Rep("x", tz.i) \o amps

\* C15 as stated: after a failed summarizer, a body longer than the cap is
\* cut to its first 300 characters and the marker, a body at or under the
\* cap is returned unchanged, the output is never longer than 303, and a
\* repeated call gives the same output
C15_FallbackTruncatesBody ==
    (tz.at = "teaser" /\ tz.calls > 0 /\ tz.failed) =>
        /\ Len(tz.teaser) <= TeaserCap + Len(Ellipsis)
        /\ IF Len(tz.content) > TeaserCap
           THEN tz.teaser = SubSeq(tz.content, 1, TeaserCap) \o Ellipsis
           ELSE tz.teaser = tz.content
        /\ (tz.calls > 1 /\ tz.prev_failed) => tz.teaser = tz.prev

\* C15 amended: the same of the sanitized body (the body with its
\* ampersands escaped) in place of the body
C15_FallbackTruncatesSanitizedBody ==
    (tz.at = "teaser" /\ tz.calls > 0 /\ tz.failed) =>
        /\ Len(tz.teaser) <= TeaserCap + Len(Ellipsis)
        /\ IF Len(Sanitized) > TeaserCap
           THEN /\ Len(tz.teaser) = TeaserCap + Len(Ellipsis)
                /\ \A k \in 1..TeaserCap : tz.teaser[k] = Sanitized[k]
                /\ \A k \in 1..Len(Ellipsis) :
                       tz.teaser[TeaserCap + k] = Ellipsis[k]
           ELSE tz.teaser = Sanitized
        /\ (tz.calls > 1 /\ tz.prev_failed) => tz.teaser = tz.prev

\* the summarizer failed twice on a body under the cap whose sanitized form
\* is over it, and the teaser is truncated
C15_Witness ==
    /\ tz.at = "teaser"
    /\ tz.calls > 1 /\ tz.failed /\ tz.prev_failed
    /\ Len(tz.content) <= TeaserCap
    /\ Len(tz.teaser) = TeaserCap + Len(Ellipsis)

\* the declared titles and their trimmed forms, written out
Trimmed(t) ==
    CASE t = <<"T">> -> <<"T">>
      [] t = <<Space, "T", Space>> -> <<"T">>
      [] t = <<"T", Space, "t">> -> <<"T", Space, "t">>
      [] t = <<Space>> -> <<>>

\* C16: the document stored for a page without title element has the
\* page's URL as its title; for a page with a title element it has the
\* trimmed declared title
C16_TitleIsUrlOrTrimmedTitle ==
    (pg.at = "page" /\ pg.result = "stored") =>
        /\ pg.doc.url = pg.url
        /\ IF pg.soupie.title.tag
           THEN pg.doc.title = Trimmed(pg.soupie.title.string)
           ELSE pg.doc.title = <<pg.url>>

\* a page without title element was stored
C16_Witness ==
    /\ pg.at = "page"
    /\ pg.result = "stored"
    /\ ~pg.soupie.title.tag

\* C18: whatever its title and body elements, index_page on a fetched
\* HTML page completes, with a title and a body field that is not empty
C18_MarkupNeverAborts ==
    (pg.at = "page" /\ pg.result # "none") =>
        /\ pg.result = "stored"
        /\ pg.doc.content # <<>>

\* C17: a call of crawl_page on a URL that is in visited_urls fetches
\* nothing, adds no document, opens no loop over links and leaves
\* visited_urls and the index as they are: the link is consumed, no more
C17_VisitedUrlIsNoOp ==
    [][(/\ pc = "Crawling"
        /\ stack # <<>>
        /\ Top.links # <<>>
        /\ Head(Top.links) \in visited_urls)
       => (/\ fetches' = fetches
           /\ writer' = writer
           /\ visited_urls' = visited_urls
           /\ index' = index
           /\ pc' = "Crawling"
           /\ stack' = Append(Below, [Top EXCEPT !.links = Tail(@)]))]_vars

\* the start page links to itself: crawl_page was called on the start URL
\* again when it was the only URL visited
C17_Witness ==
    /\ start_url \in calls
    /\ visited_urls = {start_url}
    /\ fetches[start_url] = 1
    /\ pc = "Crawling"

\* a frame of parse_links is open on the page of u
LinksFollowed(u) == \E k \in 1..Len(stack) : stack[k].base_url = u

\* C19: a URL answered with a status outside 200..299 gets no document and
\* no loop over its links, whatever its content type, and is in
\* visited_urls
C19_NonOkStatusSkipped ==
    \A u \in Urls :
        (fetches[u] > 0 /\ site[u].exc = "" /\ site[u].status \notin 200..299)
            => /\ writer[u] = 0
               /\ u \notin index
               /\ ~LinksFollowed(u)
               /\ u \in visited_urls

\* C21: a search for a raw word, in either mode, gives the URLs the search
\* for its normal form gives
C21_QueryNormalizedAsDocuments ==
    \A w \in RawWords, all_words \in BOOLEAN :
        mem_search(<<w>>, all_words) = mem_search(<<NormalForm[w]>>, all_words)

\* the URLs a document was added for
DocUrls == {u \in Urls : writer[u] > 0}

\* a call of crawl_page returns normally in the step: the call that ran a
\* loop over links, when the loop is over; a call made by the loop that
\* opens no loop of its own and raises nothing; the call of start_crawling
\* when the start page is no HTML
CrawlPageReturns ==
    \/ pc = "Crawling" /\ stack # <<>> /\ Top.links = <<>>
    \/ /\ pc = "Crawling" /\ stack # <<>> /\ Top.links # <<>>
       /\ SameNetloc(Head(Top.links))
       /\ pc' = "Crawling"
       /\ Len(stack') = Len(stack)
    \/ pc = "NotStarted" /\ pc' = "Crawling" /\ stack' = <<>>

\* C22: when a call of crawl_page has returned normally, the URLs a
\* document was added for are the URLs of visited_urls, one document each
C22_DocumentsAreVisitedUrls ==
    [][CrawlPageReturns =>
          /\ DocUrls' = visited_urls'
          /\ \A u \in Urls : writer'[u] <= 1]_vars

\* the session is over: two pages were visited and have their document,
\* and a URL that is no HTML was fetched and has neither
C22_Witness ==
    /\ pc = "Sealed"
    /\ Cardinality(visited_urls) >= 2
    /\ DocUrls = visited_urls
    /\ \E u \in Urls : fetches[u] > 0 /\ u \notin visited_urls
====
